---- MODULE Spec2Model ----
(***************************************************************************)
(* gosonic: image reference parsing and formatting, runner resolution,     *)
(* the stage execution protocol with its audit records, and the `run`      *)
(* command that executes a list of stages.                                 *)
(*                                                                         *)
(* Strings are sequences of one-character strings, so that splitting,      *)
(* joining and prefixing are computed character by character.              *)
(***************************************************************************)
EXTENDS Integers, Sequences, FiniteSets, TLC

(***************************************************************************)
(* Bounds of the model                                                     *)
(***************************************************************************)
\* longest image reference / runner string enumerated
MaxRefLen == 5

\* characters an enumerated image reference is made of
RefChars == {"a", ".", ":", "/", "@"}

\* default registries enumerated (main.go uses "public.ecr.aws")
Registries == { << "r", ".", "o" >>, << "h", ":", "5" >>, << "r" >> }

\* longest list of stage names given to `run`
MaxStages == 3

\* longest command string enumerated
MaxCmdLen == 5

\* characters an enumerated command string is made of
CmdChars == {"a", " ", "\"", "'", "\t", "\n"}

\* commands given besides the enumerated ones
ExampleCommands ==
  { << "e", "c", "h", "o", " ", "\"", "h", "e", "l", "l", "o", " ", "w", "o", "r", "l", "d", "\"", " ", "'", "f", "o", "o", " ", "b", "a", "r", "'" >>,
    << "e", "c", "h", "o", " ", "\"", "\"" >> }


(***************************************************************************)
(* strings package                                                         *)
(***************************************************************************)
Contains(s, c) == \E i \in 1..Len(s) : s[i] = c

RECURSIVE Split(_, _)
Split(s, sep) ==
  IF ~Contains(s, sep) THEN << s >>
  ELSE LET i == CHOOSE k \in 1..Len(s) :
                  s[k] = sep /\ \A j \in 1..(k - 1) : s[j] # sep
       IN  << SubSeq(s, 1, i - 1) >> \o Split(SubSeq(s, i + 1, Len(s)), sep)

RECURSIVE Join(_, _)
Join(ss, sep) ==
  IF Len(ss) = 0 THEN << >>
  ELSE IF Len(ss) = 1 THEN ss[1]
  ELSE ss[1] \o sep \o Join(Tail(ss), sep)

(***************************************************************************)
(* lib/docker.go: image references                                         *)
(***************************************************************************)
ImageRef(domain, contextPath, name, tag, digest) ==
  [Domain |-> domain, ContextPath |-> contextPath, Name |-> name,
   Tag |-> tag, Digest |-> digest]

\* mutation of ParseImageRef: only '.' marks a domain
ParseImageRefDotOnly(ref) ==
  IF ref = << >> THEN ImageRef(<< >>, << >>, << >>, << >>, << >>)
  ELSE LET split     == Split(ref, "/")
           hasDomain == Len(split) > 1 /\ Contains(split[1], ".")
           parts     == IF hasDomain THEN Tail(split) ELSE split
           lastPart  == parts[Len(parts)]
           nameAndDigest == Split(lastPart, "@")
           nameAndTag    == Split(nameAndDigest[1], ":")
       IN  ImageRef(IF hasDomain THEN split[1] ELSE << >>,
                    IF Len(parts) > 1
                      THEN Join(SubSeq(parts, 1, Len(parts) - 1), << "/" >>)
                      ELSE << >>,
                    nameAndTag[1],
                    IF Len(nameAndTag) > 1 THEN nameAndTag[2] ELSE << >>,
                    IF Len(nameAndDigest) > 1 THEN nameAndDigest[2] ELSE << >>)

\* mutation of ParseImageRef: the tag is split off before the digest
ParseImageRefTagFirst(ref) ==
  IF ref = << >> THEN ImageRef(<< >>, << >>, << >>, << >>, << >>)
  ELSE LET split     == Split(ref, "/")
           hasDomain == Len(split) > 1
                          /\ (Contains(split[1], ".") \/ Contains(split[1], ":"))
           parts     == IF hasDomain THEN Tail(split) ELSE split
           lastPart  == parts[Len(parts)]
           nameAndTag    == Split(lastPart, ":")
           nameAndDigest == Split(lastPart, "@")
       IN  ImageRef(IF hasDomain THEN split[1] ELSE << >>,
                    IF Len(parts) > 1
                      THEN Join(SubSeq(parts, 1, Len(parts) - 1), << "/" >>)
                      ELSE << >>,
                    nameAndTag[1],
                    IF Len(nameAndTag) > 1 THEN nameAndTag[2] ELSE << >>,
                    IF Len(nameAndDigest) > 1 THEN nameAndDigest[2] ELSE << >>)

ParseImageRef(ref) ==
  IF ref = << >> THEN ImageRef(<< >>, << >>, << >>, << >>, << >>)
  ELSE LET split     == Split(ref, "/")
           hasDomain == Len(split) > 1
                          /\ (Contains(split[1], ".") \/ Contains(split[1], ":"))
           parts     == IF hasDomain THEN Tail(split) ELSE split
           lastPart  == parts[Len(parts)]
           nameAndDigest == Split(lastPart, "@")
           nameAndTag    == Split(nameAndDigest[1], ":")
       IN  ImageRef(IF hasDomain THEN split[1] ELSE << >>,
                    IF Len(parts) > 1
                      THEN Join(SubSeq(parts, 1, Len(parts) - 1), << "/" >>)
                      ELSE << >>,
                    nameAndTag[1],
                    IF Len(nameAndTag) > 1 THEN nameAndTag[2] ELSE << >>,
                    IF Len(nameAndDigest) > 1 THEN nameAndDigest[2] ELSE << >>)

\* mutation of ImageRefString: the digest is written before the tag
ImageRefStringDigestFirst(i) ==
  Join((IF i.Domain # << >> THEN << i.Domain >> ELSE << >>)
         \o (IF i.ContextPath # << >> THEN << i.ContextPath >> ELSE << >>)
         \o << i.Name >>, << "/" >>)
    \o (IF i.Digest # << >> THEN << "@" >> \o i.Digest ELSE << >>)
    \o (IF i.Tag # << >> THEN << ":" >> \o i.Tag ELSE << >>)

ImageRefString(i) ==
  Join((IF i.Domain # << >> THEN << i.Domain >> ELSE << >>)
         \o (IF i.ContextPath # << >> THEN << i.ContextPath >> ELSE << >>)
         \o << i.Name >>, << "/" >>)
    \o (IF i.Tag # << >> THEN << ":" >> \o i.Tag ELSE << >>)
    \o (IF i.Digest # << >> THEN << "@" >> \o i.Digest ELSE << >>)

DefaultImagePath ==
  << "/", "d", "o", "c", "k", "e", "r", "/", "l", "i", "b", "r", "a", "r", "y",
     "/", "a", "l", "p", "i", "n", "e", ":", "l", "a", "t", "e", "s", "t" >>

\* mutation of ResolveRunnerImage: the registry is put in front of the runner
ResolveRunnerImagePrepends(runner, registry) ==
  IF runner = << >> THEN registry \o DefaultImagePath
  ELSE registry \o << "/" >> \o ImageRefString(ParseImageRef(runner))

\* mutation of ResolveRunnerImage: no fallback image for the empty runner
ResolveRunnerImageNoFallback(runner, registry) ==
  LET parsed == ParseImageRef(runner)
      ref    == IF parsed.Domain = << >>
                  THEN [parsed EXCEPT !.Domain = registry]
                  ELSE parsed
  IN  ImageRefString(ref)

\* mutation of ResolveRunnerImage: the registry is set whatever the domain is
ResolveRunnerImageAlways(runner, registry) ==
  IF runner = << >> THEN registry \o DefaultImagePath
  ELSE LET parsed == ParseImageRef(runner)
       IN  ImageRefString([parsed EXCEPT !.Domain = registry])

ResolveRunnerImage(runner, registry) ==
  IF runner = << >> THEN registry \o DefaultImagePath
  ELSE LET parsed == ParseImageRef(runner)
           ref    == IF parsed.Domain = << >>
                       THEN [parsed EXCEPT !.Domain = registry]
                       ELSE parsed
       IN  ImageRefString(ref)

(***************************************************************************)
(* lib/docker.go: command tokenizer                                        *)
(***************************************************************************)
NoQuote == "none"

\* mutation of splitCommandScan: an unclosed quoted region is dropped
RECURSIVE splitCommandScanDropsUnclosed(_, _, _, _, _, _)
splitCommandScanDropsUnclosed(cmd, i, args, currentArg, inQuotes, quoteChar) ==
  IF i > Len(cmd)
    THEN IF Len(currentArg) > 0 /\ ~inQuotes THEN Append(args, currentArg)
         ELSE args
  ELSE LET char == cmd[i] IN
    IF char = "\"" \/ char = "'"
      THEN IF inQuotes /\ char = quoteChar
             THEN splitCommandScanDropsUnclosed(cmd, i + 1, args, currentArg, FALSE, NoQuote)
           ELSE IF ~inQuotes
             THEN splitCommandScanDropsUnclosed(cmd, i + 1, args, currentArg, TRUE, char)
           ELSE splitCommandScanDropsUnclosed(cmd, i + 1, args, Append(currentArg, char),
                                 inQuotes, quoteChar)
    ELSE IF char = " " /\ ~inQuotes
      THEN IF Len(currentArg) > 0
             THEN splitCommandScanDropsUnclosed(cmd, i + 1, Append(args, currentArg), << >>,
                                   inQuotes, quoteChar)
             ELSE splitCommandScanDropsUnclosed(cmd, i + 1, args, currentArg,
                                   inQuotes, quoteChar)
    ELSE splitCommandScanDropsUnclosed(cmd, i + 1, args, Append(currentArg, char),
                          inQuotes, quoteChar)

\* mutation of splitCommandScan: every space outside quotes ends a token
RECURSIVE splitCommandScanEmitsEmpty(_, _, _, _, _, _)
splitCommandScanEmitsEmpty(cmd, i, args, currentArg, inQuotes, quoteChar) ==
  IF i > Len(cmd)
    THEN IF Len(currentArg) > 0 THEN Append(args, currentArg) ELSE args
  ELSE LET char == cmd[i] IN
    IF char = "\"" \/ char = "'"
      THEN IF inQuotes /\ char = quoteChar
             THEN splitCommandScanEmitsEmpty(cmd, i + 1, args, currentArg, FALSE, NoQuote)
           ELSE IF ~inQuotes
             THEN splitCommandScanEmitsEmpty(cmd, i + 1, args, currentArg, TRUE, char)
           ELSE splitCommandScanEmitsEmpty(cmd, i + 1, args, Append(currentArg, char),
                                 inQuotes, quoteChar)
    ELSE IF char = " " /\ ~inQuotes
      THEN splitCommandScanEmitsEmpty(cmd, i + 1, Append(args, currentArg), << >>,
                                      inQuotes, quoteChar)
    ELSE splitCommandScanEmitsEmpty(cmd, i + 1, args, Append(currentArg, char),
                          inQuotes, quoteChar)

\* mutation of splitCommandScan: either quote character closes a region
RECURSIVE splitCommandScanAnyQuoteCloses(_, _, _, _, _, _)
splitCommandScanAnyQuoteCloses(cmd, i, args, currentArg, inQuotes, quoteChar) ==
  IF i > Len(cmd)
    THEN IF Len(currentArg) > 0 THEN Append(args, currentArg) ELSE args
  ELSE LET char == cmd[i] IN
    IF char = "\"" \/ char = "'"
      THEN IF inQuotes
             THEN splitCommandScanAnyQuoteCloses(cmd, i + 1, args, currentArg,
                                                 FALSE, NoQuote)
             ELSE splitCommandScanAnyQuoteCloses(cmd, i + 1, args, currentArg,
                                                 TRUE, char)
    ELSE IF char = " " /\ ~inQuotes
      THEN IF Len(currentArg) > 0
             THEN splitCommandScanAnyQuoteCloses(cmd, i + 1,
                                                 Append(args, currentArg), << >>,
                                                 inQuotes, quoteChar)
             ELSE splitCommandScanAnyQuoteCloses(cmd, i + 1, args, currentArg,
                                                 inQuotes, quoteChar)
    ELSE splitCommandScanAnyQuoteCloses(cmd, i + 1, args,
                                        Append(currentArg, char),
                                        inQuotes, quoteChar)

RECURSIVE splitCommandScan(_, _, _, _, _, _)
splitCommandScan(cmd, i, args, currentArg, inQuotes, quoteChar) ==
  IF i > Len(cmd)
    THEN IF Len(currentArg) > 0 THEN Append(args, currentArg) ELSE args
  ELSE LET char == cmd[i] IN
    IF char = "\"" \/ char = "'"
      THEN IF inQuotes /\ char = quoteChar
             THEN splitCommandScan(cmd, i + 1, args, currentArg, FALSE, NoQuote)
           ELSE IF ~inQuotes
             THEN splitCommandScan(cmd, i + 1, args, currentArg, TRUE, char)
           ELSE splitCommandScan(cmd, i + 1, args, Append(currentArg, char),
                                 inQuotes, quoteChar)
    ELSE IF char = " " /\ ~inQuotes
      THEN IF Len(currentArg) > 0
             THEN splitCommandScan(cmd, i + 1, Append(args, currentArg), << >>,
                                   inQuotes, quoteChar)
             ELSE splitCommandScan(cmd, i + 1, args, currentArg,
                                   inQuotes, quoteChar)
    ELSE splitCommandScan(cmd, i + 1, args, Append(currentArg, char),
                          inQuotes, quoteChar)

splitCommandArgs(cmd) == splitCommandScan(cmd, 1, << >>, << >>, FALSE, NoQuote)

(***************************************************************************)
(* lib/docker.go: the argv of a stage                                      *)
(***************************************************************************)
Workspace == << "/", "w", "o", "r", "k", "s", "p", "a", "c", "e" >>

BaseArgs ==
  << << "d", "o", "c", "k", "e", "r" >>, << "r", "u", "n" >>,
     << "-", "-", "r", "m" >>, << "-", "-", "i", "n", "i", "t" >>,
     << "-", "-", "w", "o", "r", "k", "d", "i", "r" >>, Workspace >>

\* the orders in which `range` may visit the keys of a map
RangeOrders(m) ==
  LET keys == DOMAIN m
      n    == Cardinality(keys)
  IN  { o \in [1..n -> keys] : \A i, j \in 1..n : o[i] = o[j] => i = j }

RECURSIVE EnvArgs(_, _)
EnvArgs(env, order) ==
  IF order = << >> THEN << >>
  ELSE << << "-", "e" >>, Head(order) \o << "=" >> \o env[Head(order)] >>
         \o EnvArgs(env, Tail(order))

\* mutation of VolumeArg: the mount options are left out
VolumeArgNoOptions(vol) == vol.Source \o << ":" >> \o vol.Target

VolumeArg(vol) ==
  vol.Source \o << ":" >> \o vol.Target
    \o (IF vol.Readonly THEN << ":" >> \o Join(<< << "r", "o" >> >>, << "," >>)
                        ELSE << >>)

RECURSIVE VolumeArgs(_)
VolumeArgs(vols) ==
  IF vols = << >> THEN << >>
  ELSE << << "-", "v" >>, VolumeArg(Head(vols)) >> \o VolumeArgs(Tail(vols))

\* mutation of CommandArgs: every stage with commands goes through the shell
CommandArgsAlwaysShell(commands) ==
  IF Len(commands) >= 1
    THEN << << "s", "h" >>, << "-", "c" >>,
            Join(commands, << " ", "&", "&", " " >>) >>
  ELSE << >>

CommandArgs(commands) ==
  IF Len(commands) = 1 THEN splitCommandArgs(commands[1])
  ELSE IF Len(commands) > 1
    THEN << << "s", "h" >>, << "-", "c" >>,
            Join(commands, << " ", "&", "&", " " >>) >>
  ELSE << >>

DockerArgs(stage, order) ==
  BaseArgs \o EnvArgs(stage.Environment, order) \o VolumeArgs(stage.Volumes)
    \o << stage.Runner >> \o CommandArgs(stage.Commands)

(***************************************************************************)
(* lib/audit.go: audit records and stores                                  *)
(***************************************************************************)
Nil == [nil |-> TRUE, msg |-> ""]

Err(m) == [nil |-> FALSE, msg |-> m]

AuditLog(project, gitRevision, stage, command, startTime) ==
  [Project |-> project, GitRevision |-> gitRevision, Stage |-> stage,
   Command |-> command, StartTime |-> startTime, Duration |-> 0,
   Status |-> "success", Error |-> ""]

\* mutation of SetError: the command is cleared with the status
SetErrorClearsCommand(a, err) ==
  [a EXCEPT !.Status = "error", !.Error = err.msg, !.Command = << >>]

\* mutation of SetError: the message is not recorded
SetErrorStatusOnly(a, err) == [a EXCEPT !.Status = "error"]

SetError(a, err) == [a EXCEPT !.Status = "error", !.Error = err.msg]

\* time.Format("20060102-150405"); the clock counts the seconds that follow
\* 2024-01-01 00:00:00
Digit == << "0", "1", "2", "3", "4", "5", "6", "7", "8", "9" >>

FormatTime(t) ==
  << "2", "0", "2", "4", "0", "1", "0", "1", "-", "0", "0", "0", "0",
     Digit[(t \div 10) + 1], Digit[(t % 10) + 1] >>

\* mutation of generateFilename: the status is part of the name
generateFilenameWithStatus(a) ==
  a.Project \o << "-" >> \o a.Stage \o << "-" >> \o << a.Status >> \o << "-" >>
    \o FormatTime(a.StartTime) \o << ".", "j", "s", "o", "n" >>

generateFilename(a) ==
  a.Project \o << "-" >> \o a.Stage \o << "-" >> \o FormatTime(a.StartTime)
    \o << ".", "j", "s", "o", "n" >>

\* json.MarshalIndent: the error field is omitted when empty
marshalLog(a) ==
  IF a.Error = ""
    THEN [f \in DOMAIN a \ {"Error"} |-> a[f]]
    ELSE a

\* filepath.Join
PathJoin(dir, name) == IF dir = << >> THEN name ELSE dir \o << "/" >> \o name

NoStore == [kind |-> "nil", Directory |-> << >>, BucketName |-> << >>,
            Prefix |-> << >>]

NewFileStore(directory) == [NoStore EXCEPT !.kind = "file", !.Directory = directory]

NewS3Store(bucketName, prefix) ==
  [NoStore EXCEPT !.kind = "s3", !.BucketName = bucketName, !.Prefix = prefix]

StoreKey(st, log) ==
  IF st.kind = "file" THEN PathJoin(st.Directory, generateFilename(log))
  ELSE PathJoin(st.Prefix, generateFilename(log))

\* what a write to a store can do: "ok" persists the record, "failed" (the
\* directory cannot be created, the upload is refused) changes nothing
StoreOutcomes == {"ok", "failed"}

PutFile(fsys, key, content) ==
  [k \in DOMAIN fsys \cup {key} |-> IF k = key THEN content ELSE fsys[k]]

Store(st, fsys, log, outcome) ==
  IF outcome = "ok" THEN PutFile(fsys, StoreKey(st, log), marshalLog(log))
  ELSE fsys

StoreError(outcome) ==
  IF outcome = "ok" THEN Nil ELSE Err("writing audit log")

\* strings.TrimSpace of the output of git rev-parse HEAD
RECURSIVE TrimSpace(_)
TrimSpace(s) ==
  IF s = << >> THEN s
  ELSE IF Head(s) \in {" ", "\n"} THEN TrimSpace(Tail(s))
  ELSE IF s[Len(s)] \in {" ", "\n"} THEN TrimSpace(SubSeq(s, 1, Len(s) - 1))
  ELSE s

GitOutput == << "c", "1", "\n" >>

\* mutation of GetGitRevision: the output is returned as printed
GetGitRevisionUntrimmed(available) ==
  IF available THEN [rev |-> GitOutput, err |-> Nil]
  ELSE [rev |-> << >>, err |-> Err("exit status 128")]

GetGitRevision(available) ==
  IF available THEN [rev |-> TrimSpace(GitOutput), err |-> Nil]
  ELSE [rev |-> << >>, err |-> Err("exit status 128")]

\* what cmd.Run can do: the process exits with a code, or cannot be started
RunOutcomes ==
  { [started |-> TRUE, code |-> 0],
    [started |-> TRUE, code |-> 1],
    [started |-> FALSE, code |-> 0] }

\* the exit code is taken from an *exec.ExitError only
execDockerImpl(run) ==
  LET err       == IF ~run.started
                     THEN Err("exec: docker: executable file not found")
                   ELSE IF run.code # 0 THEN Err("exit status 1")
                   ELSE Nil
      isExitErr == run.started /\ run.code # 0
  IN  [Error |-> err, ExitCode |-> IF isExitErr THEN run.code ELSE 0]

\* what running the docker binary can do
DockerResults == { execDockerImpl(run) : run \in RunOutcomes }

(***************************************************************************)
(* main.go: configuration                                                  *)
(***************************************************************************)
DefaultRegistry ==
  << "p", "u", "b", "l", "i", "c", ".", "e", "c", "r", ".", "a", "w", "s" >>

ProjectName == << "p" >>

Volume(type, source, target, readonly) ==
  [Type |-> type, Source |-> source, Target |-> target, Readonly |-> readonly]

Stage(runner, commands, requires, environment, volumes) ==
  [Runner |-> runner, Commands |-> commands, Requires |-> requires,
   Environment |-> environment, Volumes |-> volumes]

\* the stages of the configuration file: t(est), b(uild) and d(eploy)
ConfigStages ==
  (<< "t" >> :> Stage(<< "g", ":", "1" >>,
                      << << "g", " ", "-", "v", " ", "\"", "a", " ", "b", "\"" >> >>,
                      << >>, << >>, << >>))
  @@ (<< "b" >> :> Stage(<< "r", ".", "o", "/", "g" >>,
                         << << "g", " ", "b" >>, << "l", "s" >> >>,
                         << << "t" >> >>,
                         (<< "K" >> :> << "v" >>),
                         << Volume("bind", << "." >>, << "/", "a", "p", "p" >>, TRUE) >>))
  @@ (<< "d" >> :> Stage(<< >>,
                         << >>,
                         << << "b" >>, << "t" >> >>,
                         (<< "A" >> :> << "1" >>) @@ (<< "B" >> :> << "2" >>),
                         << Volume("bind", << "." >>, Workspace, FALSE),
                            Volume("cache", << "c" >>, << "/", "r" >>, TRUE) >>))

\* names that may be given to `run`; x is not a stage of the configuration
StageNames == DOMAIN ConfigStages \cup { << "x" >> }

\* audit settings: command line flags and configuration file, and whether an
\* S3 client can be created
AuditSetup(flagStore, cfgStore, flagBucket, cfgBucket, flagPath, cfgPath, clientOK) ==
  [flagStore |-> flagStore, cfgStore |-> cfgStore, flagBucket |-> flagBucket,
   cfgBucket |-> cfgBucket, flagPath |-> flagPath, cfgPath |-> cfgPath,
   clientOK |-> clientOK]

AuditSetups ==
  { AuditSetup("", "", << >>, << >>, << >>, << >>, FALSE),
    AuditSetup("", "file", << >>, << >>, << "l" >>, << "m" >>, FALSE),
    AuditSetup("", "s3", << >>, << "k" >>, << >>, << "l" >>, TRUE),
    AuditSetup("s3", "file", << >>, << >>, << >>, << >>, TRUE),
    AuditSetup("s3", "", << "k" >>, << >>, << >>, << >>, FALSE),
    AuditSetup("", "bogus", << >>, << >>, << >>, << >>, TRUE) }

\* mutation of createAuditStore: an unknown store kind falls back to files
createAuditStoreLenient(s) ==
  LET storeType == IF s.flagStore # "" THEN s.flagStore
                   ELSE IF s.cfgStore # "" THEN s.cfgStore ELSE "file"
      path      == IF s.flagPath # << >> THEN s.flagPath ELSE s.cfgPath
      bucket    == IF s.flagBucket # << >> THEN s.flagBucket ELSE s.cfgBucket
  IN  IF storeType = "s3"
        THEN IF bucket = << >>
               THEN [store |-> NoStore, err |-> Err("s3 bucket must be specified")]
             ELSE IF ~s.clientOK
               THEN [store |-> NoStore, err |-> Err("creating S3 client")]
             ELSE [store |-> NewS3Store(bucket, path), err |-> Nil]
      ELSE [store |-> NewFileStore(IF path = << >>
                                     THEN << ".", "l", "o", "g", "s" >> ELSE path),
            err |-> Nil]

createAuditStore(s) ==
  LET storeType == IF s.flagStore # "" THEN s.flagStore
                   ELSE IF s.cfgStore # "" THEN s.cfgStore ELSE "file"
      path      == IF s.flagPath # << >> THEN s.flagPath ELSE s.cfgPath
      bucket    == IF s.flagBucket # << >> THEN s.flagBucket ELSE s.cfgBucket
  IN  IF storeType = "file"
        THEN [store |-> NewFileStore(IF path = << >>
                                       THEN << ".", "l", "o", "g", "s" >> ELSE path),
              err |-> Nil]
      ELSE IF storeType = "s3"
        THEN IF bucket = << >>
               THEN [store |-> NoStore, err |-> Err("s3 bucket must be specified")]
             ELSE IF ~s.clientOK
               THEN [store |-> NoStore, err |-> Err("creating S3 client")]
             ELSE [store |-> NewS3Store(bucket, path), err |-> Nil]
      ELSE [store |-> NoStore, err |-> Err("unknown audit store type")]

\* createStageCommand: the default workspace mount
StageVolumes(stage) ==
  IF \E i \in 1..Len(stage.Volumes) : stage.Volumes[i].Target = Workspace
    THEN stage.Volumes
    ELSE Append(stage.Volumes, Volume("bind", << "." >>, Workspace, FALSE))

\* createStageCommand: the stage execution handed to ExecuteStage
StageExecution(name, stage) ==
  [Name |-> name,
   Runner |-> ResolveRunnerImage(stage.Runner, DefaultRegistry),
   Commands |-> stage.Commands,
   Environment |-> stage.Environment,
   Volumes |-> StageVolumes(stage)]

(***************************************************************************)
(* State                                                                   *)
(***************************************************************************)
VARIABLES
  ipc,               \* position of the image reference computation
  ref,               \* the image reference text given
  defaultRegistry,   \* the default registry given
  image,             \* ParseImageRef(ref)
  text,              \* image.String()
  image2,            \* ParseImageRef(text)
  resolved,          \* ResolveRunnerImage(ref, defaultRegistry)
  resolved2,         \* ResolveRunnerImage(resolved, defaultRegistry)
  pc,                \* position of the `run` command
  stages,            \* the stage names given to `run`
  idx,               \* index in stages of the stage being run
  setup,             \* audit flags and configuration
  gitAvailable,      \* whether git rev-parse HEAD succeeds
  elapsed,           \* seconds a docker process takes
  clock,             \* time.Now(), in seconds
  store,             \* auditStore of the running stage
  storeErr,          \* error of createAuditStore for the running stage
  stageExec,         \* the StageExecution of the running stage
  dockerArgs,        \* argv built for the running stage
  auditLog,          \* auditLog of the running stage
  writes,            \* Store calls made by the running ExecuteStage
  result,            \* DockerResult of the running stage
  stageErr,          \* what ExecuteStage returns
  runErr,            \* what `run` returns
  invoked,           \* calls of ExecDocker made by this run
  files,             \* content of the audit store
  tpc,               \* position of the tokenizer computation
  cmd,               \* the command string given
  tokens,            \* splitCommandArgs(cmd)
  lpc,               \* position of the audit log retrieval
  logDirExists,      \* whether the directory of the FileStore exists
  logFiles,          \* the files of the directory of the FileStore
  query,             \* the project and revision given to LoadLogs
  loaded             \* what LoadLogs returned

imgVars == << ipc, ref, defaultRegistry, image, text, image2, resolved,
              resolved2 >>

runVars == << pc, stages, idx, setup, gitAvailable, elapsed, clock, store, storeErr,
              stageExec, dockerArgs, auditLog, writes, result, stageErr,
              runErr, invoked, files >>

tokVars == << tpc, cmd, tokens >>

logVars == << lpc, logDirExists, logFiles, query, loaded >>

vars == << imgVars, runVars, tokVars, logVars >>

NoValue == << "-" >>

NoResult == [Error |-> Nil, ExitCode |-> 0]

NoExec == [Name |-> << >>, Runner |-> << >>, Commands |-> << >>,
           Environment |-> << >>, Volumes |-> << >>]

NoLog == AuditLog(<< >>, << >>, << >>, << >>, 0)

RECURSIVE StringsUpTo(_, _)
StringsUpTo(chars, n) ==
  IF n = 0 THEN { << >> }
  ELSE LET shorter == StringsUpTo(chars, n - 1)
       IN  shorter \cup { Append(s, c) : s \in shorter, c \in chars }

RefStrings == StringsUpTo(RefChars, MaxRefLen)

CmdStrings == StringsUpTo(CmdChars, MaxCmdLen) \cup ExampleCommands

StageLists == StringsUpTo(StageNames, MaxStages)

ImageIdle ==
  /\ ipc = "idle"
  /\ ref = << >>
  /\ defaultRegistry = << >>
  /\ image = NoValue
  /\ text = NoValue
  /\ image2 = NoValue
  /\ resolved = NoValue
  /\ resolved2 = NoValue

TokenIdle ==
  /\ tpc = "idle"
  /\ cmd = << >>
  /\ tokens = NoValue

StoreIdle ==
  /\ lpc = "idle"
  /\ logDirExists = FALSE
  /\ logFiles = << >>
  /\ query = NoValue
  /\ loaded = NoValue

RunIdle ==
  /\ pc = "idle"
  /\ stages = << >>
  /\ idx = 0
  /\ setup = NoValue
  /\ gitAvailable = FALSE
  /\ elapsed = 0
  /\ clock = 0
  /\ store = NoStore
  /\ storeErr = Nil
  /\ stageExec = NoExec
  /\ dockerArgs = << >>
  /\ auditLog = NoLog
  /\ writes = << >>
  /\ result = NoResult
  /\ stageErr = Nil
  /\ runErr = ""
  /\ invoked = << >>
  /\ files = << >>

(***************************************************************************)
(* Image references: parse, format, parse again, resolve                   *)
(***************************************************************************)
ImageInit ==
  /\ ipc = "given"
  /\ ref \in RefStrings
  /\ defaultRegistry \in Registries
  /\ image = NoValue
  /\ text = NoValue
  /\ image2 = NoValue
  /\ resolved = NoValue
  /\ resolved2 = NoValue
  /\ RunIdle
  /\ TokenIdle
  /\ StoreIdle

Parse ==
  /\ ipc = "given"
  /\ image' = ParseImageRef(ref)
  /\ ipc' = "parsed"
  /\ UNCHANGED << ref, defaultRegistry, text, image2, resolved, resolved2, runVars,
                  tokVars, logVars >>

Format ==
  /\ ipc = "parsed"
  /\ text' = ImageRefString(image)
  /\ ipc' = "formatted"
  /\ UNCHANGED << ref, defaultRegistry, image, image2, resolved, resolved2, runVars,
                  tokVars, logVars >>

Reparse ==
  /\ ipc = "formatted"
  /\ image2' = ParseImageRef(text)
  /\ ipc' = "reparsed"
  /\ UNCHANGED << ref, defaultRegistry, image, text, resolved, resolved2, runVars,
                  tokVars, logVars >>

Resolve ==
  /\ ipc = "reparsed"
  /\ resolved' = ResolveRunnerImage(ref, defaultRegistry)
  /\ ipc' = "resolved"
  /\ UNCHANGED << ref, defaultRegistry, image, text, image2, resolved2, runVars,
                  tokVars, logVars >>

\* createStageCommand run on a configuration that holds a resolved runner
ResolveAgain ==
  /\ ipc = "resolved"
  /\ resolved2' = ResolveRunnerImage(resolved, defaultRegistry)
  /\ ipc' = "resolved again"
  /\ UNCHANGED << ref, defaultRegistry, image, text, image2, resolved, runVars,
                  tokVars, logVars >>

ImageNext == Parse \/ Format \/ Reparse \/ Resolve \/ ResolveAgain

SpecImage == ImageInit /\ [][ImageNext]_vars

(***************************************************************************)
(* The tokenizer applied to a command string                               *)
(***************************************************************************)
SplitInit ==
  /\ tpc = "given"
  /\ cmd \in CmdStrings
  /\ tokens = NoValue
  /\ ImageIdle
  /\ RunIdle
  /\ StoreIdle

Tokenize ==
  /\ tpc = "given"
  /\ tokens' = splitCommandArgs(cmd)
  /\ tpc' = "split"
  /\ UNCHANGED << cmd, imgVars, runVars, logVars >>

SplitNext == Tokenize

SpecSplit == SplitInit /\ [][SplitNext]_vars

(***************************************************************************)
(* The `run` command: validation, then one stage after the other           *)
(***************************************************************************)
Init ==
  /\ pc = "run"
  /\ stages \in StageLists
  /\ idx = 0
  /\ setup \in AuditSetups
  /\ gitAvailable \in BOOLEAN
  /\ elapsed \in {0, 1}
  /\ clock = 0
  /\ store = NoStore
  /\ storeErr = Nil
  /\ stageExec = NoExec
  /\ dockerArgs = << >>
  /\ auditLog = NoLog
  /\ writes = << >>
  /\ result = NoResult
  /\ stageErr = Nil
  /\ runErr = ""
  /\ invoked = << >>
  /\ files = << >>
  /\ ImageIdle
  /\ TokenIdle
  /\ StoreIdle

\* run: the checks made before any stage is executed
\* mutation of Validate: an empty list of stages is accepted
ValidateNamesOnly ==
  /\ pc = "run"
  /\ IF \E i \in 1..Len(stages) : stages[i] \notin DOMAIN ConfigStages
       THEN /\ runErr' = "invalid stage(s) specified"
            /\ pc' = "done"
            /\ idx' = idx
       ELSE /\ runErr' = runErr
            /\ pc' = "stage"
            /\ idx' = 1
  /\ UNCHANGED << stages, setup, gitAvailable, elapsed, clock, store, storeErr, stageExec,
                  dockerArgs, auditLog, writes, result, stageErr, invoked,
                  files, imgVars, tokVars, logVars >>

Validate ==
  /\ pc = "run"
  /\ IF stages = << >>
       THEN /\ runErr' = "no stages specified"
            /\ pc' = "done"
            /\ idx' = idx
     ELSE IF \E i \in 1..Len(stages) : stages[i] \notin DOMAIN ConfigStages
       THEN /\ runErr' = "invalid stage(s) specified"
            /\ pc' = "done"
            /\ idx' = idx
     ELSE /\ runErr' = runErr
          /\ pc' = "stage"
          /\ idx' = 1
  /\ UNCHANGED << stages, setup, gitAvailable, elapsed, clock, store, storeErr, stageExec,
                  dockerArgs, auditLog, writes, result, stageErr, invoked,
                  files, imgVars, tokVars, logVars >>

\* createStageCommand and its Action, then ExecuteStage up to the creation of
\* the audit log
BeginStage ==
  /\ pc = "stage"
  /\ idx <= Len(stages)
  /\ LET name   == stages[idx]
         made   == createAuditStore(setup)
         exec   == StageExecution(name, ConfigStages[name])
         git    == GetGitRevision(gitAvailable)
         gitRev == IF git.err.nil THEN git.rev
                   ELSE << "u", "n", "k", "n", "o", "w", "n" >>
     IN  /\ store' = made.store
         /\ storeErr' = made.err
         /\ stageExec' = exec
         /\ \E order \in RangeOrders(exec.Environment) :
              dockerArgs' = DockerArgs(exec, order)
         /\ auditLog' = AuditLog(ProjectName, gitRev, exec.Name,
                                 Join(dockerArgs', << " " >>), clock)
  /\ writes' = << >>
  /\ result' = NoResult
  /\ stageErr' = Nil
  /\ pc' = "audit"
  /\ UNCHANGED << stages, idx, setup, gitAvailable, elapsed, clock, runErr, invoked,
                  files, imgVars, tokVars, logVars >>

\* mutation of WriteInitialAuditLog: a failed write aborts the stage
WriteInitialAuditLogFatal ==
  /\ pc = "audit"
  /\ IF store.kind = "nil"
       THEN /\ pc' = "exec"
            /\ UNCHANGED << writes, files, stageErr >>
       ELSE \E outcome \in StoreOutcomes :
              /\ files' = Store(store, files, auditLog, outcome)
              /\ writes' = Append(writes, [log |-> auditLog,
                                           err |-> StoreError(outcome)])
              /\ stageErr' = StoreError(outcome)
              /\ pc' = IF outcome = "ok" THEN "exec" ELSE "return"
  /\ UNCHANGED << stages, idx, setup, gitAvailable, elapsed, clock, store, storeErr,
                  stageExec, dockerArgs, auditLog, result, runErr,
                  invoked, imgVars, tokVars, logVars >>

\* ExecuteStage: write initial audit log
WriteInitialAuditLog ==
  /\ pc = "audit"
  /\ IF store.kind = "nil"
       THEN UNCHANGED << writes, files >>
       ELSE \E outcome \in StoreOutcomes :
              /\ files' = Store(store, files, auditLog, outcome)
              /\ writes' = Append(writes, [log |-> auditLog,
                                           err |-> StoreError(outcome)])
  /\ pc' = "exec"
  /\ UNCHANGED << stages, idx, setup, gitAvailable, elapsed, clock, store, storeErr,
                  stageExec, dockerArgs, auditLog, result, stageErr, runErr,
                  invoked, imgVars, tokVars, logVars >>

\* ExecuteStage: execute docker command
ExecDocker ==
  /\ pc = "exec"
  /\ \E r \in DockerResults :
       /\ result' = r
       /\ clock' = clock + elapsed
       /\ invoked' = Append(invoked, [idx |-> idx, stage |-> stageExec.Name,
                                      args |-> dockerArgs,
                                      failed |-> ~r.Error.nil])
  /\ pc' = "update"
  /\ UNCHANGED << stages, idx, setup, gitAvailable, elapsed, store, storeErr,
                  stageExec, dockerArgs, auditLog, writes, stageErr, runErr,
                  files, imgVars, tokVars, logVars >>

\* mutation of UpdateAuditLog: the record is written again after a success too
UpdateAuditLogAlways ==
  /\ pc = "update"
  /\ auditLog' = IF ~result.Error.nil THEN SetError(auditLog, result.Error)
                 ELSE auditLog
  /\ IF store.kind = "nil"
       THEN UNCHANGED << writes, files >>
       ELSE \E outcome \in StoreOutcomes :
              /\ files' = Store(store, files, auditLog', outcome)
              /\ writes' = Append(writes, [log |-> auditLog',
                                           err |-> StoreError(outcome)])
  /\ stageErr' = result.Error
  /\ pc' = "return"
  /\ UNCHANGED << stages, idx, setup, gitAvailable, elapsed, clock, store, storeErr,
                  stageExec, dockerArgs, result, runErr, invoked, imgVars, tokVars, logVars >>

\* ExecuteStage: update audit log if there was an error, and the value returned
UpdateAuditLog ==
  /\ pc = "update"
  /\ IF ~result.Error.nil
       THEN /\ auditLog' = SetError(auditLog, result.Error)
            /\ IF store.kind = "nil"
                 THEN UNCHANGED << writes, files >>
                 ELSE \E outcome \in StoreOutcomes :
                        /\ files' = Store(store, files, auditLog', outcome)
                        /\ writes' = Append(writes, [log |-> auditLog',
                                                     err |-> StoreError(outcome)])
       ELSE UNCHANGED << auditLog, writes, files >>
  /\ stageErr' = result.Error
  /\ pc' = "return"
  /\ UNCHANGED << stages, idx, setup, gitAvailable, elapsed, clock, store, storeErr,
                  stageExec, dockerArgs, result, runErr, invoked, imgVars, tokVars, logVars >>

\* mutation of StageReturn: the remaining stages run after a failure
StageReturnContinue ==
  /\ pc = "return"
  /\ runErr' = IF ~stageErr.nil THEN "stage failed" ELSE runErr
  /\ pc' = "stage"
  /\ idx' = idx + 1
  /\ UNCHANGED << stages, setup, gitAvailable, elapsed, clock, store, storeErr, stageExec,
                  dockerArgs, auditLog, writes, result, stageErr, invoked,
                  files, imgVars, tokVars, logVars >>

\* run: the stage command returned
StageReturn ==
  /\ pc = "return"
  /\ IF ~stageErr.nil
       THEN /\ runErr' = "stage failed"
            /\ pc' = "done"
            /\ idx' = idx
       ELSE /\ runErr' = runErr
            /\ pc' = "stage"
            /\ idx' = idx + 1
  /\ UNCHANGED << stages, setup, gitAvailable, elapsed, clock, store, storeErr, stageExec,
                  dockerArgs, auditLog, writes, result, stageErr, invoked,
                  files, imgVars, tokVars, logVars >>

\* run: every stage has succeeded
RunReturn ==
  /\ pc = "stage"
  /\ idx > Len(stages)
  /\ pc' = "done"
  /\ UNCHANGED << stages, idx, setup, gitAvailable, elapsed, clock, store, storeErr,
                  stageExec, dockerArgs, auditLog, writes, result, stageErr,
                  runErr, invoked, files, imgVars, tokVars, logVars >>

Next ==
  \/ Validate
  \/ BeginStage
  \/ WriteInitialAuditLog
  \/ ExecDocker
  \/ UpdateAuditLog
  \/ StageReturn
  \/ RunReturn

Spec == Init /\ [][Next]_vars

(***************************************************************************)
(* C3: parsing the formatted text of a parsed non-empty reference gives    *)
(* the same reference, field by field.                                     *)
(***************************************************************************)
RoundTrip ==
  (ipc \in {"reparsed", "resolved"} /\ ref # << >>)
    => /\ image2.Domain = image.Domain
       /\ image2.ContextPath = image.ContextPath
       /\ image2.Name = image.Name
       /\ image2.Tag = image.Tag
       /\ image2.Digest = image.Digest

\* a malformed reference (dropped pieces, so text differs from ref) re-parsed
RoundTripWitness ==
  /\ ipc = "reparsed"
  /\ ref # << >>
  /\ text # ref
  /\ image.Tag # << >>
  /\ image2 = image

(***************************************************************************)
(* Shape of a reference that formatting reproduces: in the segments that   *)
(* follow the domain, the last one has at most one '@', at most one ':'    *)
(* before it, a non-empty tag after ':' and a non-empty digest after '@',  *)
(* and the path in front of it is not one single empty segment.            *)
(***************************************************************************)
Canonical(parts) ==
  LET nameAndDigest == Split(parts[Len(parts)], "@")
      nameAndTag    == Split(nameAndDigest[1], ":")
  IN  /\ Len(nameAndDigest) <= 2
      /\ Len(nameAndTag) <= 2
      /\ Len(nameAndDigest) = 2 => nameAndDigest[2] # << >>
      /\ Len(nameAndTag) = 2 => nameAndTag[2] # << >>
      /\ ~(Len(parts) = 2 /\ parts[1] = << >>)

Segments == Split(ref, "/")

HasDomainSegment ==
  /\ Len(Segments) >= 2
  /\ Contains(Segments[1], ".") \/ Contains(Segments[1], ":")

(***************************************************************************)
(* C9 as stated: a runner whose first of several segments contains '.' or  *)
(* ':' is returned unchanged, for every default registry.                  *)
(***************************************************************************)
DomainRunnerUnchanged ==
  (ipc = "resolved" /\ ref # << >> /\ HasDomainSegment) => resolved = ref

(***************************************************************************)
(* C9 amended: such a runner is returned unchanged when the segments after *)
(* its domain are canonical.                                               *)
(***************************************************************************)
CanonicalDomainRunnerUnchanged ==
  (ipc = "resolved" /\ ref # << >> /\ HasDomainSegment
     /\ Canonical(Tail(Segments)))
    => resolved = ref

CanonicalDomainRunnerWitness ==
  /\ ipc = "resolved"
  /\ HasDomainSegment
  /\ Canonical(Tail(Segments))
  /\ image.Tag # << >>
  /\ image.Name # << >>
  /\ resolved = ref
  /\ defaultRegistry # << >>

(***************************************************************************)
(* C10 as stated: a runner without domain resolves to the default registry,*)
(* "/" and the runner; the empty runner to the registry and the fallback   *)
(* image path.                                                             *)
(***************************************************************************)
RegistryPrepended ==
  (ipc = "resolved" /\ image.Domain = << >>)
    => resolved = IF ref = << >>
                    THEN defaultRegistry \o DefaultImagePath
                    ELSE defaultRegistry \o << "/" >> \o ref

(***************************************************************************)
(* C10 amended: with a non-empty default registry, a canonical runner      *)
(* without domain resolves to registry, "/" and the runner; the empty      *)
(* runner resolves to the registry and the fallback image path, for every  *)
(* registry.                                                               *)
(***************************************************************************)
CanonicalRegistryPrepended ==
  /\ (ipc = "resolved" /\ ref = << >>)
        => resolved = defaultRegistry \o DefaultImagePath
  /\ (ipc = "resolved" /\ ref # << >> /\ image.Domain = << >>
         /\ defaultRegistry # << >> /\ Canonical(Segments))
        => resolved = defaultRegistry \o << "/" >> \o ref

CanonicalRegistryPrependedWitness ==
  /\ ipc = "resolved"
  /\ ref # << >>
  /\ image.Domain = << >>
  /\ image.ContextPath # << >>
  /\ image.Tag # << >>
  /\ defaultRegistry = << "r", ".", "o" >>
  /\ Canonical(Segments)
  /\ resolved = defaultRegistry \o << "/" >> \o ref

(***************************************************************************)
(* The running ExecuteStage call and its process                           *)
(***************************************************************************)
Returning == pc = "return"

ProcessFailed == ~result.Error.nil

\* the calls of ExecDocker made for the stage at position i of the list
InvokedFor(i) == { k \in 1..Len(invoked) : invoked[k].idx = i }

AllValid == \A i \in 1..Len(stages) : stages[i] \in DOMAIN ConfigStages

(***************************************************************************)
(* C1: when ExecuteStage returns with a non-nil store, the store has       *)
(* received two writes if the process failed, the first with status        *)
(* "success", the second with status "error" and a non-empty error         *)
(* message, and one write with status "success" if the process succeeded.  *)
(***************************************************************************)
AuditLifecycle ==
  (Returning /\ store.kind # "nil")
    => IF ProcessFailed
         THEN /\ Len(writes) = 2
              /\ writes[1].log.Status = "success"
              /\ writes[1].log.Error = ""
              /\ writes[2].log.Status = "error"
              /\ writes[2].log.Error # ""
         ELSE /\ Len(writes) = 1
              /\ writes[1].log.Status = "success"

AuditLifecycleWitness ==
  /\ Returning
  /\ store.kind = "file"
  /\ ProcessFailed
  /\ Len(writes) = 2
  /\ writes[2].log.Error = "exit status 1"

(***************************************************************************)
(* C2: for a list of valid stage names, the processes invoked so far are   *)
(* those of the first stages of the list, one per stage and in the order   *)
(* of the list; only the last one invoked can have failed; and when `run`  *)
(* is done after a failure it returns an error.                            *)
(***************************************************************************)
SequentialFailFast ==
  AllValid
    => /\ Len(invoked) <= Len(stages)
       /\ \A k \in 1..Len(invoked) :
            /\ invoked[k].idx = k
            /\ invoked[k].stage = stages[k]
            /\ invoked[k].failed => k = Len(invoked)
       /\ Len(invoked) \in {idx - 1, idx}
       /\ (pc = "done" /\ \E k \in 1..Len(invoked) : invoked[k].failed)
            => runErr = "stage failed"
       /\ (pc = "done" /\ runErr = "") => Len(invoked) = Len(stages)

\* [t, b, d] where b fails: the process of d has not been invoked
SequentialFailFastWitness ==
  /\ pc = "done"
  /\ stages = << << "t" >>, << "b" >>, << "d" >> >>
  /\ Len(invoked) = 2
  /\ invoked[2].failed
  /\ runErr = "stage failed"

(***************************************************************************)
(* C4: whatever the store is (nil, accepting, failing), when ExecuteStage  *)
(* returns the process has been invoked exactly once, with an argv built   *)
(* from the stage alone, and the value returned is the error of the        *)
(* process (nil when it succeeded).                                        *)
(***************************************************************************)
OutcomeIgnoresStore ==
  Returning
    => /\ Cardinality(InvokedFor(idx)) = 1
       /\ \E order \in RangeOrders(stageExec.Environment) :
            invoked[Len(invoked)].args
              = DockerArgs(StageExecution(stages[idx], ConfigStages[stages[idx]]),
                           order)
       /\ stageErr = result.Error
       /\ stageErr.nil <=> ~invoked[Len(invoked)].failed

\* a store that refused the write, and a stage that succeeds all the same
OutcomeIgnoresStoreWitness ==
  /\ Returning
  /\ store.kind = "file"
  /\ Len(writes) = 1
  /\ ~writes[1].err.nil
  /\ ~ProcessFailed
  /\ stageErr.nil
  /\ Cardinality(InvokedFor(idx)) = 1

(***************************************************************************)
(* C5: in the argv passed to the process, what follows the image is the    *)
(* tokens of the command when the stage has one command, "sh", "-c" and    *)
(* the commands joined with " && " when it has several, and nothing when   *)
(* it has none.                                                            *)
(***************************************************************************)
ImagePosition(exec) ==
  Len(BaseArgs) + 2 * Cardinality(DOMAIN exec.Environment)
    + 2 * Len(exec.Volumes) + 1

AfterImage(argv, exec) == SubSeq(argv, ImagePosition(exec) + 1, Len(argv))

RecordsOfExecution ==
  { k \in DOMAIN files : /\ files[k].Project = auditLog.Project
                         /\ files[k].Stage = auditLog.Stage
                         /\ files[k].StartTime = auditLog.StartTime }

DualWriteConverges ==
  (Returning /\ store.kind \in {"file", "s3"} /\ ProcessFailed)
    => /\ Len(writes) = 2
       /\ StoreKey(store, writes[1].log) = StoreKey(store, writes[2].log)
       /\ generateFilename(writes[1].log) = generateFilename(writes[2].log)
       /\ writes[2].err.nil
            => /\ RecordsOfExecution = { StoreKey(store, writes[2].log) }
               /\ files[StoreKey(store, writes[2].log)].Status = "error"

\* both writes accepted by the file store
DualWriteConvergesWitness ==
  /\ Returning
  /\ store.kind = "file"
  /\ ProcessFailed
  /\ Len(writes) = 2
  /\ writes[1].err.nil
  /\ writes[2].err.nil
  /\ Cardinality(DOMAIN files) = 1

(***************************************************************************)
(* C7 as stated: when the audit store cannot be built, the stage command   *)
(* fails and no process is invoked for the stage.                          *)
(***************************************************************************)
StoreFailureIsFatal ==
  ~storeErr.nil
    => /\ InvokedFor(idx) = {}
       /\ Returning => ~stageErr.nil

(***************************************************************************)
(* C7 amended: when the audit store cannot be built, createAuditStore      *)
(* returns an error and no store; the stage runs without audit store: its  *)
(* process is invoked once, nothing is written, and the stage returns the  *)
(* error of the process.                                                   *)
(***************************************************************************)
StoreFailureIsAbsorbed ==
  /\ pc \in {"audit", "exec", "update", "return"}
       => /\ storeErr.nil <=> store.kind # "nil"
          /\ (setup.flagStore = "" /\ setup.cfgStore = "bogus")
               => storeErr = Err("unknown audit store type")
          /\ (setup.flagStore = "s3" /\ setup.flagBucket = << >>
                /\ setup.cfgBucket = << >>)
               => storeErr = Err("s3 bucket must be specified")
          /\ (setup.flagStore = "s3" /\ setup.flagBucket # << >>
                /\ ~setup.clientOK)
               => storeErr = Err("creating S3 client")
  /\ (Returning /\ ~storeErr.nil)
       => /\ Cardinality(InvokedFor(idx)) = 1
          /\ writes = << >>
          /\ files = << >>
          /\ stageErr = result.Error

StoreFailureIsAbsorbedWitness ==
  /\ Returning
  /\ storeErr = Err("unknown audit store type")
  /\ store.kind = "nil"
  /\ ~ProcessFailed
  /\ stageErr.nil
  /\ Cardinality(InvokedFor(idx)) = 1

(***************************************************************************)
(* C8: the process of a stage that declares `requires` is invoked only if  *)
(* the audit logs hold a "success" record of every required stage.         *)
(***************************************************************************)
HasSucceeded(name) ==
  \E k \in DOMAIN files : /\ files[k].Project = ProjectName
                          /\ files[k].Stage = name
                          /\ files[k].Status = "success"

\* pc = "update": the process of the stage has just been invoked
RequiresEnforced ==
  pc = "update"
    => LET requires == ConfigStages[stages[idx]].Requires
       IN  \A i \in 1..Len(requires) : HasSucceeded(requires[i])

(***************************************************************************)
(* Order of strings, byte by byte, over the characters the model uses      *)
(***************************************************************************)
Ascii ==
  << "\t", "\n", " ", "\"", "'", "-", ".", "/", "0", "1", "2", "3", "4", "5",
     "6", "7", "8", "9", ":", "=", "@", "A", "B", "K", "a", "b", "c", "d",
     "e", "g", "h", "i", "j", "k", "l", "n", "o", "p", "r", "s", "t", "u",
     "v", "w", "y" >>

Rank(c) == CHOOSE i \in 1..Len(Ascii) : Ascii[i] = c

RECURSIVE StringLess(_, _)
StringLess(a, b) ==
  IF b = << >> THEN FALSE
  ELSE IF a = << >> THEN TRUE
  ELSE IF Head(a) = Head(b) THEN StringLess(Tail(a), Tail(b))
  ELSE Rank(Head(a)) < Rank(Head(b))

\* the elements of a set of strings in ascending order
Ascending(S) ==
  CHOOSE o \in [1..Cardinality(S) -> S] :
    \A i, j \in 1..Cardinality(S) : i < j => StringLess(o[i], o[j])

(***************************************************************************)
(* C11: the -e pairs of the argv passed to the process are in ascending    *)
(* key order, and two executions of the same stage in one run pass the     *)
(* same argv.                                                              *)
(***************************************************************************)
ReproducibleArgv ==
  /\ pc = "update"
       => invoked[Len(invoked)].args
            = DockerArgs(stageExec, Ascending(DOMAIN stageExec.Environment))
  /\ \A j, k \in 1..Len(invoked) :
       invoked[j].stage = invoked[k].stage => invoked[j].args = invoked[k].args

(***************************************************************************)
(* Quoted regions of a command, position by position                       *)
(***************************************************************************)
Quotes == {"\"", "'"}

\* the quote character of the region open after the first n characters
RECURSIVE OpenAfter(_, _)
OpenAfter(c, n) ==
  IF n = 0 THEN NoQuote
  ELSE LET before == OpenAfter(c, n - 1)
       IN  IF c[n] \notin Quotes THEN before
           ELSE IF before = NoQuote THEN c[n]
           ELSE IF before = c[n] THEN NoQuote
           ELSE before

\* what the character at position n is, when seps are the separators
Role(c, n, seps) ==
  LET before == OpenAfter(c, n - 1)
  IN  IF c[n] \in Quotes /\ before = NoQuote THEN "open"
      ELSE IF c[n] \in Quotes /\ before = c[n] THEN "close"
      ELSE IF c[n] \in seps /\ before = NoQuote THEN "separator"
      ELSE "literal"

RECURSIVE LiteralsIn(_, _, _, _)
LiteralsIn(c, from, to, seps) ==
  IF from > to THEN << >>
  ELSE (IF Role(c, from, seps) = "literal" THEN << c[from] >> ELSE << >>)
         \o LiteralsIn(c, from + 1, to, seps)

\* the tokens of c: the literal characters between separators, empty runs
\* dropped
RECURSIVE TokensFrom(_, _, _)
TokensFrom(c, start, seps) ==
  IF start > Len(c) THEN << >>
  ELSE LET ends == { i \in start..Len(c) : Role(c, i, seps) = "separator" }
           end  == IF ends = {} THEN Len(c) + 1
                   ELSE CHOOSE i \in ends : \A j \in ends : i <= j
           tok  == LiteralsIn(c, start, end - 1, seps)
       IN  (IF tok # << >> THEN << tok >> ELSE << >>)
             \o TokensFrom(c, end + 1, seps)

Tokenized == tpc = "split"

(***************************************************************************)
(* C12: both quote characters open a region when none is open; only the    *)
(* same character closes it; the other quote character and the spaces in   *)
(* the region are copied into the token.                                   *)
(***************************************************************************)
TokenizerQuoting ==
  Tokenized
    => /\ tokens = TokensFrom(cmd, 1, {" "})
       /\ cmd = << "e", "c", "h", "o", " ", "\"", "h", "e", "l", "l", "o", " ", "w", "o", "r", "l", "d", "\"", " ", "'", "f", "o", "o", " ", "b", "a", "r", "'" >>
            => tokens = << << "e", "c", "h", "o" >>, << "h", "e", "l", "l", "o", " ", "w", "o", "r", "l", "d" >>, << "f", "o", "o", " ", "b", "a", "r" >> >>

\* a region opened by ' that holds a " and a space
TokenizerQuotingWitness ==
  /\ Tokenized
  /\ cmd = << "'", "\"", " ", "a", "'" >>
  /\ tokens = << << "\"", " ", "a" >> >>

(***************************************************************************)
(* C13: every space, tab and newline outside a quoted region separates     *)
(* tokens and is in no token.                                              *)
(***************************************************************************)
WhitespaceSeparates ==
  Tokenized
    => /\ tokens = TokensFrom(cmd, 1, {" ", "\t", "\n"})
       /\ \A k \in 1..Len(tokens) :
            (\A n \in 1..Len(cmd) : cmd[n] \notin Quotes)
              => \A n \in 1..Len(tokens[k]) :
                   tokens[k][n] \notin {" ", "\t", "\n"}

(***************************************************************************)
(* C14: every audit record written carries the trimmed revision when the   *)
(* lookup succeeds and "unknown" when it fails; in both cases the process  *)
(* is invoked once and ExecuteStage returns the error of the process.      *)
(***************************************************************************)
RevisionRecorded ==
  IF gitAvailable THEN << "c", "1" >>
  ELSE << "u", "n", "k", "n", "o", "w", "n" >>

RevisionFailureAbsorbed ==
  /\ \A k \in 1..Len(writes) : writes[k].log.GitRevision = RevisionRecorded
  /\ \A k \in DOMAIN files : files[k].GitRevision = RevisionRecorded
  /\ Returning
       => /\ Cardinality(InvokedFor(idx)) = 1
          /\ stageErr = result.Error

RevisionFailureAbsorbedWitness ==
  /\ Returning
  /\ ~gitAvailable
  /\ store.kind = "file"
  /\ Len(writes) = 1
  /\ writes[1].err.nil
  /\ writes[1].log.GitRevision = << "u", "n", "k", "n", "o", "w", "n" >>
  /\ ~ProcessFailed
  /\ stageErr.nil

(***************************************************************************)
(* The text of a reference around its last '/'                             *)
(***************************************************************************)
LastSlash ==
  LET slashes == { i \in 1..Len(ref) : ref[i] = "/" }
  IN  IF slashes = {} THEN 0
      ELSE CHOOSE i \in slashes : \A j \in slashes : j <= i

FirstSlash ==
  LET slashes == { i \in 1..Len(ref) : ref[i] = "/" }
  IN  IF slashes = {} THEN 0
      ELSE CHOOSE i \in slashes : \A j \in slashes : i <= j

LastSegment == SubSeq(ref, LastSlash + 1, Len(ref))

Free(s, chars) == \A i \in 1..Len(s) : s[i] \notin chars

ImageParsed == ipc \notin {"idle", "given"}

(***************************************************************************)
(* C15: the domain is non-empty exactly when the reference has several     *)
(* segments and the first contains '.' or ':', and is then that segment;   *)
(* otherwise all that precedes the last segment is the context path; the   *)
(* empty reference gives the all-empty reference.                          *)
(***************************************************************************)
DomainHeuristic ==
  ImageParsed
    => /\ image.Domain # << >> <=> HasDomainSegment
       /\ HasDomainSegment
            => /\ image.Domain = SubSeq(ref, 1, FirstSlash - 1)
               /\ image.ContextPath = SubSeq(ref, FirstSlash + 1, LastSlash - 1)
       /\ ~HasDomainSegment
            => /\ image.Domain = << >>
               /\ image.ContextPath = SubSeq(ref, 1, LastSlash - 1)
       /\ ref = << >> => image = ImageRef(<< >>, << >>, << >>, << >>, << >>)

\* a first segment marked by ':' only, and a context path behind it
DomainHeuristicWitness ==
  /\ ipc = "parsed"
  /\ ref = << ":", "/", "a", "/", "a" >>
  /\ image.Domain = << ":" >>
  /\ image.ContextPath = << "a" >>
  /\ image.Name = << "a" >>

(***************************************************************************)
(* C16: a last segment N, N:T, N@D or N:T@D, with N and T free of ':' and  *)
(* '@' and D free of '@', gives name N, tag T and digest D.                *)
(***************************************************************************)
TagDigestExtraction ==
  ImageParsed
    => LET L == LastSegment
           n == Len(L)
       IN  /\ Free(L, {":", "@"})
                => /\ image.Name = L
                   /\ image.Tag = << >>
                   /\ image.Digest = << >>
           /\ \A q \in 1..n :
                (/\ L[q] = ":"
                 /\ Free(SubSeq(L, 1, q - 1), {":", "@"})
                 /\ Free(SubSeq(L, q + 1, n), {":", "@"}))
                  => /\ image.Name = SubSeq(L, 1, q - 1)
                     /\ image.Tag = SubSeq(L, q + 1, n)
                     /\ image.Digest = << >>
           /\ \A p \in 1..n :
                (/\ L[p] = "@"
                 /\ Free(SubSeq(L, 1, p - 1), {":", "@"})
                 /\ Free(SubSeq(L, p + 1, n), {"@"}))
                  => /\ image.Name = SubSeq(L, 1, p - 1)
                     /\ image.Tag = << >>
                     /\ image.Digest = SubSeq(L, p + 1, n)
           /\ \A q, p \in 1..n :
                (/\ q < p
                 /\ L[q] = ":"
                 /\ L[p] = "@"
                 /\ Free(SubSeq(L, 1, q - 1), {":", "@"})
                 /\ Free(SubSeq(L, q + 1, p - 1), {":", "@"})
                 /\ Free(SubSeq(L, p + 1, n), {"@"}))
                  => /\ image.Name = SubSeq(L, 1, q - 1)
                     /\ image.Tag = SubSeq(L, q + 1, p - 1)
                     /\ image.Digest = SubSeq(L, p + 1, n)

\* a digest that contains ':' is kept whole
TagDigestExtractionWitness ==
  /\ ipc = "parsed"
  /\ ref = << "a", "@", "a", ":", "a" >>
  /\ image.Name = << "a" >>
  /\ image.Tag = << >>
  /\ image.Digest = << "a", ":", "a" >>

(***************************************************************************)
(* FileStore: records stored in a directory and loaded back                *)
(***************************************************************************)
HasPrefix(str, prefix) ==
  /\ Len(str) >= Len(prefix)
  /\ SubSeq(str, 1, Len(prefix)) = prefix

HasSuffix(str, suffix) ==
  /\ Len(str) >= Len(suffix)
  /\ SubSeq(str, Len(str) - Len(suffix) + 1, Len(str)) = suffix

\* json.Unmarshal into a zero AuditLog: an omitted error field stays empty
unmarshalLog(data) ==
  [f \in DOMAIN data \cup {"Error"} |->
     IF f \in DOMAIN data THEN data[f] ELSE ""]

\* os.ReadDir: the names of the files of a directory
ReadDir(directory, fsys) ==
  { SubSeq(k, Len(directory) + 2, Len(k)) :
      k \in { f \in DOMAIN fsys : HasPrefix(f, directory \o << "/" >>) } }

\* readable: whether os.ReadFile succeeds on the files of the directory
LoadLogs(fs, fsys, exists, project, gitRevision, readable) ==
  IF ~exists THEN [logs |-> << >>, err |-> Nil]
  ELSE LET names   == { n \in ReadDir(fs.Directory, fsys) :
                          /\ HasPrefix(n, project \o << "-" >>)
                          /\ HasSuffix(n, << ".", "j", "s", "o", "n" >>) }
           entries == Ascending(names)
           parsed  == [i \in 1..Len(entries) |->
                         unmarshalLog(fsys[PathJoin(fs.Directory, entries[i])])]
       IN  IF names # {} /\ ~readable
             THEN [logs |-> << >>, err |-> Err("reading log file")]
             ELSE [logs |-> SelectSeq(parsed,
                                      LAMBDA log : log.GitRevision = gitRevision),
                   err  |-> Nil]

LogStore == NewFileStore(<< "l" >>)

LogProjects == { << "p" >>, << "p", "-", "w" >> }

LogRevisions == { << "c" >>, << "d" >> }

\* the records given to Store: two projects, two revisions, two start times,
\* succeeded and failed
LogRecords ==
  LET fresh == { AuditLog(p, r, << "s" >>, << "g" >>, t) :
                   p \in LogProjects, r \in LogRevisions, t \in {0, 1} }
  IN  fresh \cup { SetError(a, Err("exit status 1")) : a \in fresh }

StoreInit ==
  /\ lpc = "storing"
  /\ logDirExists = FALSE
  /\ logFiles = << >>
  /\ query = NoValue
  /\ loaded = NoValue
  /\ ImageIdle
  /\ RunIdle
  /\ TokenIdle

StoreLog ==
  /\ lpc = "storing"
  /\ \E log \in LogRecords, outcome \in StoreOutcomes :
       /\ logFiles' = Store(LogStore, logFiles, log, outcome)
       /\ logDirExists' = (logDirExists \/ outcome = "ok")
  /\ UNCHANGED << lpc, query, loaded, imgVars, runVars, tokVars >>

Load ==
  /\ lpc = "storing"
  /\ \E project \in LogProjects, gitRevision \in LogRevisions,
        readable \in BOOLEAN :
       /\ query' = [project |-> project, gitRevision |-> gitRevision]
       /\ loaded' = LoadLogs(LogStore, logFiles, logDirExists, project,
                             gitRevision, readable)
  /\ lpc' = "loaded"
  /\ UNCHANGED << logDirExists, logFiles, imgVars, runVars, tokVars >>

StoreNext == StoreLog \/ Load

SpecStore == StoreInit /\ [][StoreNext]_vars

(***************************************************************************)
(* C17: LoadLogs returns exactly the stored records of the project and     *)
(* revision asked for, and nothing and no error when the directory is      *)
(* missing.                                                                *)
(***************************************************************************)
StoredRecords == { unmarshalLog(logFiles[k]) : k \in DOMAIN logFiles }

LoadLogsExact ==
  lpc = "loaded"
    => /\ ~logDirExists => loaded = [logs |-> << >>, err |-> Nil]
       /\ loaded.err.nil
            => /\ { loaded.logs[i] : i \in 1..Len(loaded.logs) }
                    = { a \in StoredRecords :
                          /\ a.Project = query.project
                          /\ a.GitRevision = query.gitRevision }
               /\ \A i, j \in 1..Len(loaded.logs) :
                    i # j => loaded.logs[i] # loaded.logs[j]

(***************************************************************************)
(* C18: the result of an invocation has an error exactly when its exit     *)
(* code is not zero.                                                       *)
(***************************************************************************)
ErrorIffExitCode ==
  pc = "update" => (~result.Error.nil <=> result.ExitCode # 0)

(***************************************************************************)
(* C19: the final record of an ExecuteStage call has the time between its  *)
(* start time and the completion of the process as its duration.           *)
(***************************************************************************)
DurationRecorded ==
  (Returning /\ writes # << >>)
    => LET final == writes[Len(writes)].log
       IN  final.Duration = clock - final.StartTime

(***************************************************************************)
(* C20: a stage without volumes gets the mount of . at /workspace, and a   *)
(* stage that mounts . elsewhere does not.                                 *)
(***************************************************************************)
DefaultMount == << ".", ":" >> \o Workspace

DefinesOwnWorkspace(stage) ==
  \E i \in 1..Len(stage.Volumes) :
    /\ stage.Volumes[i].Type = "bind"
    /\ stage.Volumes[i].Source = << "." >>
    /\ stage.Volumes[i].Target # Workspace

DefaultMountOverridden ==
  pc = "update"
    => LET stage == ConfigStages[stages[idx]]
           args  == invoked[Len(invoked)].args
       IN  /\ stage.Volumes = << >>
                => \E i \in 1..(Len(args) - 1) :
                     /\ args[i] = << "-", "v" >>
                     /\ args[i + 1] = DefaultMount
           /\ DefinesOwnWorkspace(stage)
                => \A i \in 1..Len(args) : args[i] # DefaultMount

(***************************************************************************)
(* C21: for every stage with at least one command, what follows the image  *)
(* in the argv is "sh", "-c" and the commands joined with " && ".          *)
(***************************************************************************)
ShellExecution ==
  pc = "update" =>
    LET k    == Len(invoked)
        exec == StageExecution(invoked[k].stage, ConfigStages[invoked[k].stage])
        cmds == ConfigStages[invoked[k].stage].Commands
    IN  Len(cmds) >= 1
          => AfterImage(invoked[k].args, exec)
               = << << "s", "h" >>, << "-", "c" >>,
                    Join(cmds, << " ", "&", "&", " " >>) >>

(***************************************************************************)
(* C22: a runner without tag resolves to a reference with the tag latest.  *)
(***************************************************************************)
LatestTag == << ":", "l", "a", "t", "e", "s", "t" >>

TaglessResolvesToLatest ==
  (/\ ipc = "resolved"
   /\ ref # << >>
   /\ image.Name # << >>
   /\ image.Tag = << >>
   /\ image.Digest = << >>)
    => HasSuffix(resolved, LatestTag)

(***************************************************************************)
(* C23: in an ExecuteStage call with a store, the process is invoked once, *)
(* after one write of a "success" record and no other; a second write is   *)
(* made only after the process has returned an error, carries status       *)
(* "error" and is followed by the return of ExecuteStage; nothing is       *)
(* written after a successful invocation or after the return.              *)
(***************************************************************************)
WriteOrdering ==
  [][/\ invoked' # invoked
          => /\ InvokedFor(idx) = {}
             /\ writes' = writes
             /\ store.kind # "nil"
                  => /\ Len(writes) = 1
                     /\ writes[1].log.Status = "success"
     /\ (writes' # writes /\ writes' # << >>)
          => /\ store.kind # "nil"
             /\ invoked' = invoked
             /\ \/ /\ writes = << >>
                   /\ Len(writes') = 1
                   /\ writes'[1].log.Status = "success"
                   /\ InvokedFor(idx) = {}
                \/ /\ Len(writes) = 1
                   /\ Len(writes') = 2
                   /\ writes'[1] = writes[1]
                   /\ writes'[2].log.Status = "error"
                   /\ Cardinality(InvokedFor(idx)) = 1
                   /\ invoked[Len(invoked)].failed
                   /\ pc' = "return"
     /\ pc = "return" => (writes' = writes \/ writes' = << >>) /\ files' = files
    ]_vars

\* the s3 store has taken both records of a process that could not be started
WriteOrderingWitness ==
  /\ Returning
  /\ store.kind = "s3"
  /\ Len(writes) = 2
  /\ writes[1].log.Status = "success"
  /\ writes[2].log.Status = "error"
  /\ writes[2].log.Error = "exec: docker: executable file not found"
  /\ Cardinality(InvokedFor(idx)) = 1

(***************************************************************************)
(* C24: the first record of an execution is never stored under the key of  *)
(* a record that the store already holds, so that the record of an earlier *)
(* execution is never overwritten by a later one.                          *)
(***************************************************************************)
RecordsNeverOverwritten ==
  [][(/\ pc = "audit"
      /\ store.kind = "file"
      /\ Len(writes') = 1
      /\ writes'[1].err.nil)
       => /\ StoreKey(store, writes'[1].log) \notin DOMAIN files
          /\ Cardinality(DOMAIN files') = Cardinality(DOMAIN files) + 1
    ]_vars

(***************************************************************************)
(* C25: when the list of stage names is empty or holds a name that is not  *)
(* a stage of the configuration, no process is invoked, nothing is         *)
(* written, and `run` ends with an error.                                  *)
(***************************************************************************)
ValidatedBeforeExecution ==
  (stages = << >> \/ ~AllValid)
    => /\ invoked = << >>
       /\ writes = << >>
       /\ files = << >>
       /\ pc \in {"run", "done"}
       /\ pc = "done"
            => runErr = IF stages = << >> THEN "no stages specified"
                        ELSE "invalid stage(s) specified"

\* two valid names before the invalid one
ValidatedBeforeExecutionWitness ==
  /\ pc = "done"
  /\ stages = << << "t" >>, << "b" >>, << "x" >> >>
  /\ invoked = << >>
  /\ runErr = "invalid stage(s) specified"

(***************************************************************************)
(* The parts of the argv of the last invocation                            *)
(***************************************************************************)
LastArgs == invoked[Len(invoked)].args

EnvStart == Len(BaseArgs)

VolStart == Len(BaseArgs) + 2 * Cardinality(DOMAIN stageExec.Environment)

ExpectedVolumeArg(vol) ==
  vol.Source \o << ":" >> \o vol.Target
    \o (IF vol.Readonly THEN << ":", "r", "o" >> ELSE << >>)

\* base arguments, environment pairs, volume pairs in declared order, image
OptionsLayout ==
  LET env  == stageExec.Environment
      n    == Cardinality(DOMAIN env)
      vols == stageExec.Volumes
      at   == ImagePosition(stageExec)
  IN  /\ Len(LastArgs) >= at
      /\ SubSeq(LastArgs, 1, 6)
           = << << "d", "o", "c", "k", "e", "r" >>, << "r", "u", "n" >>,
                << "-", "-", "r", "m" >>, << "-", "-", "i", "n", "i", "t" >>,
                << "-", "-", "w", "o", "r", "k", "d", "i", "r" >>,
                << "/", "w", "o", "r", "k", "s", "p", "a", "c", "e" >> >>
      /\ EnvStart = 6
      /\ \A j \in 1..n : LastArgs[EnvStart + 2 * j - 1] = << "-", "e" >>
      /\ \A k \in DOMAIN env :
           Cardinality({ j \in 1..n :
                           LastArgs[EnvStart + 2 * j] = k \o << "=" >> \o env[k] }) = 1
      /\ \A j \in 1..Len(vols) :
           /\ LastArgs[VolStart + 2 * j - 1] = << "-", "v" >>
           /\ LastArgs[VolStart + 2 * j] = ExpectedVolumeArg(vols[j])
      /\ at = VolStart + 2 * Len(vols) + 1
      /\ LastArgs[at] = stageExec.Runner
      /\ \A i \in 1..(at - 1) : LastArgs[i] # stageExec.Runner

RECURSIVE SpaceJoined(_)
SpaceJoined(argv) ==
  IF argv = << >> THEN << >>
  ELSE IF Len(argv) = 1 THEN argv[1]
  ELSE argv[1] \o << " " >> \o SpaceJoined(Tail(argv))

AuditedCommand ==
  pc \in {"update", "return"}
    => /\ \A k \in 1..Len(writes) :
            writes[k].log.Command = SpaceJoined(LastArgs)
       /\ Len(writes) = 2
            => /\ writes[2].log.Project = writes[1].log.Project
               /\ writes[2].log.GitRevision = writes[1].log.GitRevision
               /\ writes[2].log.Stage = writes[1].log.Stage
               /\ writes[2].log.Command = writes[1].log.Command
               /\ writes[2].log.StartTime = writes[1].log.StartTime
               /\ writes[2].log.Duration = writes[1].log.Duration
               /\ writes[2].log.Status = "error"
               /\ writes[2].log.Error = result.Error.msg

\* the failed execution of stage d, whose argv has no command part
AuditedCommandWitness ==
  /\ Returning
  /\ stageExec.Name = << "d" >>
  /\ store.kind = "file"
  /\ Len(writes) = 2
  /\ writes[1].log.Command = writes[2].log.Command
  /\ writes[2].log.Command = SpaceJoined(LastArgs)
  /\ writes[2].log.Error = "exit status 1"

(***************************************************************************)
(* C28: when a quote is opened and never closed, the characters after it   *)
(* are all appended to the token under construction, and that token, the   *)
(* literal characters since the last separator followed by the rest of the *)
(* input, is the last token (no token when it has no character).           *)
(***************************************************************************)
\* the position of the quote that opens the region still open at the end
UnclosedAt(c) ==
  CHOOSE q \in 1..Len(c) :
    /\ Role(c, q, {" "}) = "open"
    /\ \A n \in q..Len(c) : OpenAfter(c, n) # NoQuote

LastSeparatorBefore(c, q) ==
  LET seps == { i \in 1..(q - 1) : Role(c, i, {" "}) = "separator" }
  IN  IF seps = {} THEN 0
      ELSE CHOOSE i \in seps : \A j \in seps : j <= i

UnterminatedQuote ==
  (Tokenized /\ OpenAfter(cmd, Len(cmd)) # NoQuote)
    => LET q     == UnclosedAt(cmd)
           from  == LastSeparatorBefore(cmd, q)
           rest  == SubSeq(cmd, q + 1, Len(cmd))
           token == LiteralsIn(cmd, from + 1, q - 1, {" "}) \o rest
           head  == TokensFrom(SubSeq(cmd, 1, from), 1, {" "})
       IN  IF token # << >>
             THEN /\ tokens = Append(head, token)
                  /\ HasSuffix(tokens[Len(tokens)], rest)
             ELSE tokens = head

\* the space and the ' that follow the unclosed " are in the last token
UnterminatedQuoteWitness ==
  /\ Tokenized
  /\ cmd = << "a", " ", "\"", " ", "'" >>
  /\ tokens = << << "a" >>, << " ", "'" >> >>

(***************************************************************************)
(* C30: no token is empty; an empty quoted argument gives no token, so     *)
(* `echo ""` gives [echo]; a command without literal character (spaces and *)
(* empty quotes only) gives no token, and nothing follows the image then.  *)
(***************************************************************************)
NoEmptyToken ==
  Tokenized
    => /\ \A k \in 1..Len(tokens) : tokens[k] # << >>
       /\ cmd = << "e", "c", "h", "o", " ", "\"", "\"" >>
            => tokens = << << "e", "c", "h", "o" >> >>
       /\ (\A n \in 1..Len(cmd) : Role(cmd, n, {" "}) # "literal")
            => /\ tokens = << >>
               /\ CommandArgs(<< cmd >>) = << >>

\* two empty quoted arguments
NoEmptyTokenWitness ==
  /\ Tokenized
  /\ cmd = << "\"", "\"", " ", "'", "'" >>
  /\ tokens = << >>

(***************************************************************************)
(* C29: with a default registry that contains '.' or ':' and no '/',       *)
(* resolving a resolved reference gives the same reference.                *)
(***************************************************************************)
RegistryLike(d) ==
  /\ \E i \in 1..Len(d) : d[i] \in {".", ":"}
  /\ \A i \in 1..Len(d) : d[i] # "/"

ResolveIdempotent ==
  (ipc = "resolved again" /\ RegistryLike(defaultRegistry))
    => resolved2 = resolved

\* the registry is prepended once
ResolveIdempotentWitness ==
  /\ ipc = "resolved again"
  /\ ref = << "a", "/", "a" >>
  /\ defaultRegistry = << "h", ":", "5" >>
  /\ resolved = << "h", ":", "5", "/", "a", "/", "a" >>
  /\ resolved2 = resolved

====
